---- MODULE Spec2Model ----
(***************************************************************************)
(* Model of common.py: the scoped database accessor connect_db and the     *)
(* schema of the rankings table created by _create_schema.                 *)
(*                                                                         *)
(* A session is one invocation of connect_db.  The persistent store is the *)
(* SQLite file at DB_PATH; a dry run opens ":memory:", a database private  *)
(* to its connection.  SQLite's behaviour (constraints, transactions,      *)
(* rollback at close) is modelled as far as the schema and connect_db      *)
(* exercise it.                                                            *)
(***************************************************************************)
EXTENDS Integers, Sequences, FiniteSets, TLC

\* Number of connect_db invocations followed.
MaxSessions == 2

Sessions == 1..MaxSessions

\* common.py:9 - the fixed location of the persistent store.
DB_PATH == "db.sqlite"

\* The in-memory database name connect_db passes for a dry run.
MEMORY == ":memory:"

\* common.py:21-29 - the columns of the rankings table.
Columns == {"contest", "year", "rank", "univ", "score", "penalty"}

\* Columns declared NOT NULL.
NotNullColumns == {"contest", "year", "rank", "univ", "score"}

\* PRIMARY KEY (contest, year, univ).
PrimaryKey == {"contest", "year", "univ"}

\* The rows the caller inserts that satisfy the schema.  A NULL (or omitted)
\* column is a column outside the row's domain: the first row leaves penalty
\* NULL, the second has the key of the first and another score.
ValidRows ==
    { [contest |-> "ICPC", year |-> 2023, rank |-> 1, univ |-> "MIT",
       score |-> 500],
      [contest |-> "ICPC", year |-> 2023, rank |-> 1, univ |-> "MIT",
       score |-> 600, penalty |-> 20],
      [contest |-> "ICPC", year |-> 2023, rank |-> 2, univ |-> "CMU",
       score |-> 450] }

\* The row whose columns are all given.
FullRow ==
    [contest |-> "ICPC", year |-> 2023, rank |-> 1, univ |-> "MIT",
     score |-> 600, penalty |-> 20]

\* The rows handed to INSERT: a valid row, or the full row with one of the
\* required columns NULL.
RowInputs ==
    ValidRows \cup
    { [c \in (DOMAIN FullRow) \ {n} |-> FullRow[c]] :
        n \in {"contest", "year", "rank", "univ", "score"} }

IsNull(row, c) == c \notin DOMAIN row

\* The key of a row: its primary-key columns.
KeyOf(row) == [c \in PrimaryKey \cap DOMAIN row |-> row[c]]

\* A store: whether the rankings table exists, and its committed rows.
EmptyStore == [hasTable |-> FALSE, rows |-> {}]

VARIABLES
    pc,          \* pc[s]: where invocation s of connect_db stands
    dry_run,     \* dry_run[s]: the argument of invocation s
    target,      \* target[s]: the database name the connection was opened on
    writable,    \* writable[s]: the connection can write its store
    open,        \* open[s]: the connection object is open
    events,      \* events[s]: the lifecycle steps connect_db has executed
    disk,        \* the store at DB_PATH
    mem,         \* mem[s]: the private in-memory store of connection s
    pending,     \* pending[s]: rows inserted in the open transaction of s
    didCommit,   \* didCommit[s]: the caller committed rows through s
    lostWork     \* lostWork[s]: s was closed with rows still uncommitted

vars == <<pc, dry_run, target, writable, open, events, disk, mem, pending,
          didCommit, lostWork>>

\* DbName with the condition inverted.
DbName_inverted(dry) == IF dry THEN DB_PATH ELSE MEMORY

\* DbName ignoring dry_run: every session opens the file.
DbName_always_file(dry) == DB_PATH

\* common.py:14 - the database name chosen from dry_run.
DbName(dry) == IF dry THEN MEMORY ELSE DB_PATH

\* common.py:14 - sqlite3.connect: the file may be unopenable (missing
\* directory, permissions), or openable read-only; ":memory:" always opens.
sqlite3_connect(name, cond) ==
    IF name = MEMORY
    THEN [err |-> FALSE, writable |-> TRUE]
    ELSE [err |-> cond = "unopenable", writable |-> cond = "ok"]

\* The store a connection on `name` opened by session s reads and writes.
StoreOf(name, s) == IF name = MEMORY THEN mem[s] ELSE disk

\* _create_schema with the statement never executed.
_create_schema_skipped(store, canWrite) == [err |-> FALSE, store |-> store]

\* _create_schema as plain CREATE TABLE, without IF NOT EXISTS: an existing
\* table is an error.
_create_schema_no_guard(store, canWrite) ==
    IF store.hasTable \/ ~canWrite
    THEN [err |-> TRUE, store |-> store]
    ELSE [err |-> FALSE, store |-> [hasTable |-> TRUE, rows |-> {}]]

\* common.py:20-29 - CREATE TABLE IF NOT EXISTS rankings: nothing to do when
\* the table exists; otherwise the table is created empty, which fails on a
\* store that cannot be written.
_create_schema(store, canWrite) ==
    IF store.hasTable
    THEN [err |-> FALSE, store |-> store]
    ELSE IF ~canWrite
         THEN [err |-> TRUE, store |-> store]
         ELSE [err |-> FALSE, store |-> [hasTable |-> TRUE, rows |-> {}]]

\* connect_db_enter with the error of _create_schema swallowed.
connect_db_enter_swallow(connErr, schemaErr) ==
    IF connErr THEN "connect_failed" ELSE "yielded"

\* common.py:14-16 - where connect_db stands once the caller's `with` has
\* run it up to the yield: an error of connect or of _create_schema
\* propagates, otherwise the handle is yielded.
connect_db_enter(connErr, schemaErr) ==
    IF connErr THEN "connect_failed"
    ELSE IF schemaErr THEN "schema_failed"
    ELSE "yielded"

\* The rows a connection sees: the committed rows of its store and the rows
\* of its own open transaction.
View(s) == StoreOf(target[s], s).rows \cup pending[s]

\* NotNullOk with NOT NULL declared on the key columns only.
NotNullOk_key_only(row) == \A c \in PrimaryKey : ~IsNull(row, c)

\* common.py:22-26 - the NOT NULL constraints.
NotNullOk(row) == \A c \in NotNullColumns : ~IsNull(row, c)

\* PrimaryKeyOk with the PRIMARY KEY clause left out of the schema.
PrimaryKeyOk_absent(rows, row) == TRUE

\* common.py:28 - the PRIMARY KEY constraint against the rows in the table.
PrimaryKeyOk(rows, row) == \A r \in rows : KeyOf(r) # KeyOf(row)

\* The outcome of INSERT INTO rankings for `row` against the visible rows.
InsertResult(hasTable, rows, row) ==
    IF ~hasTable THEN "OperationalError"
    ELSE IF ~NotNullOk(row) THEN "IntegrityError"
    ELSE IF ~PrimaryKeyOk(rows, row) THEN "IntegrityError"
    ELSE "ok"

\* StoreAfterClose with a commit before the close.
StoreAfterClose_commits(store, pend) == [store EXCEPT !.rows = @ \cup pend]

\* common.py:17 - db.close(): the committed store after the connection is
\* closed; the open transaction is rolled back, never committed.
StoreAfterClose(store, pend) == store

\* SQLite lets one connection at a time hold the write lock of a file.
WriteLockFree(s) ==
    target[s] = DB_PATH =>
        \A t \in Sessions \ {s} :
            ~(open[t] /\ target[t] = DB_PATH /\ pending[t] # {})

Init ==
    /\ pc = [s \in Sessions |-> "idle"]
    /\ dry_run = [s \in Sessions |-> FALSE]
    /\ target = [s \in Sessions |-> "none"]
    /\ writable = [s \in Sessions |-> FALSE]
    /\ open = [s \in Sessions |-> FALSE]
    /\ events = [s \in Sessions |-> <<>>]
    /\ disk = EmptyStore
    /\ mem = [s \in Sessions |-> EmptyStore]
    /\ pending = [s \in Sessions |-> {}]
    /\ didCommit = [s \in Sessions |-> FALSE]
    /\ lostWork = [s \in Sessions |-> FALSE]

\* Writes `store` as the store of a connection on `name` opened by s.
PutStore(name, s, store) ==
    IF name = MEMORY
    THEN mem' = [mem EXCEPT ![s] = store] /\ UNCHANGED disk
    ELSE disk' = store /\ UNCHANGED mem

\* common.py:13-16 - `with connect_db(dry) as db:` up to the yield.
\* Invocations are numbered in the order they are made.  Persistent sessions
\* follow one another: a caller opens one only when no other is in its block
\* (simultaneous sessions on the file are not a supported use).
Enter(s, dry, cond) ==
    /\ pc[s] = "idle"
    /\ \A t \in Sessions : t < s => pc[t] # "idle"
    /\ dry => cond = "ok"
    /\ ~dry => \A t \in Sessions : ~(pc[t] = "yielded" /\ ~dry_run[t])
    /\ dry_run' = [dry_run EXCEPT ![s] = dry]
    /\ LET name == DbName(dry)
           conn == sqlite3_connect(name, cond)
           sch  == _create_schema(StoreOf(name, s), conn.writable)
           next == connect_db_enter(conn.err, ~conn.err /\ sch.err)
       IN /\ pc' = [pc EXCEPT ![s] = next]
          /\ IF conn.err
             THEN UNCHANGED <<target, writable, open, events, disk, mem>>
             ELSE /\ target' = [target EXCEPT ![s] = name]
                  /\ writable' = [writable EXCEPT ![s] = conn.writable]
                  /\ open' = [open EXCEPT ![s] = TRUE]
                  /\ PutStore(name, s, sch.store)
                  /\ events' = [events EXCEPT ![s] =
                         IF next = "yielded"
                         THEN <<"acquire", "schema", "yield">>
                         ELSE <<"acquire">>]
    /\ UNCHANGED <<pending, didCommit, lostWork>>

\* What INSERT INTO rankings for `row` returns to the caller of session s.
Execute(s, row) ==
    InsertResult(StoreOf(target[s], s).hasTable, View(s), row)

\* The caller runs INSERT INTO rankings inside the block: the row joins the
\* open transaction, or the statement raises and changes nothing.
Insert(s, row) ==
    /\ pc[s] = "yielded"
    /\ writable[s]
    /\ WriteLockFree(s)
    /\ IF Execute(s, row) = "ok"
       THEN pending' = [pending EXCEPT ![s] = @ \cup {row}]
       ELSE UNCHANGED pending
    /\ UNCHANGED <<pc, dry_run, target, writable, open, events, disk, mem,
                   didCommit, lostWork>>

\* The caller runs db.commit() inside the block.
Commit(s) ==
    /\ pc[s] = "yielded"
    /\ pending[s] # {}
    /\ LET st == StoreOf(target[s], s)
       IN PutStore(target[s], s, [st EXCEPT !.rows = @ \cup pending[s]])
    /\ didCommit' = [didCommit EXCEPT ![s] = TRUE]
    /\ pending' = [pending EXCEPT ![s] = {}]
    /\ UNCHANGED <<pc, dry_run, target, writable, open, events, lostWork>>

\* Closing connection s: the store keeps what StoreAfterClose leaves, the
\* open transaction ends, and an in-memory database is gone.
CloseConn(s) ==
    /\ open' = [open EXCEPT ![s] = FALSE]
    /\ pending' = [pending EXCEPT ![s] = {}]
    /\ lostWork' = [lostWork EXCEPT ![s] = pending[s] # {}]
    /\ IF target[s] = MEMORY
       THEN mem' = [mem EXCEPT ![s] = EmptyStore] /\ UNCHANGED disk
       ELSE disk' = StoreAfterClose(disk, pending[s]) /\ UNCHANGED mem

\* common.py:16-17 - the block completes normally: the generator resumes
\* after the yield and runs db.close().
Exit(s) ==
    /\ pc[s] = "yielded"
    /\ pc' = [pc EXCEPT ![s] = "closed"]
    /\ events' = [events EXCEPT ![s] = Append(@, "release")]
    /\ CloseConn(s)
    /\ UNCHANGED <<dry_run, target, writable, didCommit>>

\* common.py:16 - the block raises: the exception is thrown into the
\* generator at the yield, nothing catches it, and line 17 is not run.
Raise(s) ==
    /\ pc[s] = "yielded"
    /\ pc' = [pc EXCEPT ![s] = "raised"]
    /\ UNCHANGED <<dry_run, target, writable, open, events, disk, mem,
                   pending, didCommit, lostWork>>

\* A connection connect_db left open is closed only when the interpreter
\* reclaims the object, at a time the program does not control.
Finalize(s) ==
    /\ pc[s] \in {"raised", "schema_failed"}
    /\ open[s]
    /\ CloseConn(s)
    /\ UNCHANGED <<pc, dry_run, target, writable, events, didCommit>>

Next ==
    \/ \E s \in Sessions, d \in BOOLEAN,
          cond \in {"ok", "readonly", "unopenable"} : Enter(s, d, cond)
    \/ \E s \in Sessions, row \in RowInputs : Insert(s, row)
    \/ \E s \in Sessions : Commit(s)
    \/ \E s \in Sessions : Exit(s)
    \/ \E s \in Sessions : Raise(s)
    \/ \E s \in Sessions : Finalize(s)

Spec == Init /\ [][Next]_vars

----------------------------------------------------------------------------
(* Vocabulary of the properties *)

Persistent(s) == ~dry_run[s]

InBlock(s) == pc[s] = "yielded"

\* The caller of s can run a write statement now.
CanWrite(s) == InBlock(s) /\ writable[s] /\ WriteLockFree(s)

\* Two rows carry the same (contest, year, univ) triple.
SameTriple(r1, r2) ==
    /\ PrimaryKey \subseteq DOMAIN r1
    /\ PrimaryKey \subseteq DOMAIN r2
    /\ r1.contest = r2.contest
    /\ r1.year = r2.year
    /\ r1.univ = r2.univ

\* The row sets the model holds.
RowSets ==
    {disk.rows} \cup { mem[s].rows : s \in Sessions }
                \cup { pending[s] : s \in Sessions }
                \cup { View(s) : s \in Sessions }

Required == {"contest", "year", "rank", "univ", "score"}

----------------------------------------------------------------------------
\* C1: after an exception raised inside the block has propagated out of it,
\* the connection is closed: no session has left its block by error with its
\* handle still open.
C1_ClosedAfterError ==
    \A s \in Sessions : pc[s] = "raised" => ~open[s]

----------------------------------------------------------------------------
\* C2: an invocation whose block completes normally has run acquire, schema,
\* yield, release in this order, once each; while the handle is yielded the
\* connection is open and the rankings table exists, and after the block the
\* connection is closed.
C2_Lifecycle ==
    \A s \in Sessions :
        /\ InBlock(s) =>
              /\ events[s] = <<"acquire", "schema", "yield">>
              /\ open[s]
              /\ StoreOf(target[s], s).hasTable
        /\ pc[s] = "closed" =>
              /\ events[s] = <<"acquire", "schema", "yield", "release">>
              /\ ~open[s]

C2_Witness ==
    \E s \in Sessions :
        /\ pc[s] = "closed"
        /\ events[s] = <<"acquire", "schema", "yield", "release">>
        /\ didCommit[s]

----------------------------------------------------------------------------
C3_Unique ==
    \A rows \in RowSets :
        \A r1 \in rows, r2 \in rows : SameTriple(r1, r2) => r1 = r2

C3_Refused ==
    \A s \in Sessions, row \in RowInputs :
        (CanWrite(s) /\ \E r \in View(s) : SameTriple(r, row)) =>
            Execute(s, row) = "IntegrityError"

C3_Untouched ==
    \A s \in Sessions :
        (InBlock(s) /\ pc'[s] = "yielded") =>
            /\ View(s) \subseteq View(s)'
            /\ \A row \in View(s)' \ View(s) :
                  ~\E r \in View(s) : SameTriple(r, row)

\* C3: every table holds at most one row per (contest, year, univ); an insert
\* whose triple is that of a row already in the table raises IntegrityError;
\* and no step taken while a session is in its block removes or alters a row
\* it sees or adds a row whose triple was already there.
C3_Uniqueness == [](C3_Unique /\ C3_Refused) /\ [][C3_Untouched]_vars

\* A session holding two rows in which inserting the third row, which has
\* the triple of one of them and another score, is refused.
C3_Witness ==
    \E s \in Sessions :
        /\ CanWrite(s)
        /\ Cardinality(View(s)) = 2
        /\ \E row \in ValidRows \ View(s) :
              /\ \E r \in View(s) : SameTriple(r, row) /\ r.score # row.score
              /\ Execute(s, row) = "IntegrityError"

----------------------------------------------------------------------------
C4_SameStore ==
    \A s \in Sessions :
        (InBlock(s) /\ Persistent(s)) =>
            target[s] = DB_PATH /\ disk.rows \subseteq View(s)

C4_Kept ==
    /\ disk.rows \subseteq disk'.rows
    /\ disk.hasTable => disk'.hasTable
    /\ \A s \in Sessions :
          (Persistent(s) /\ Commit(s)) => pending[s] \subseteq disk'.rows

\* C4: every persistent session works on the store at DB_PATH and sees all
\* rows committed to it; a commit puts its rows there and no step, reopening
\* included, removes or alters a row of it.
C4_Persistence == []C4_SameStore /\ [][C4_Kept]_vars

\* A persistent session opened after a persistent session that committed was
\* closed, seeing rows it did not write itself.
C4_Witness ==
    \E s \in Sessions, t \in Sessions :
        /\ Persistent(s) /\ pc[s] = "closed" /\ didCommit[s]
        /\ Persistent(t) /\ InBlock(t)
        /\ ~didCommit[t] /\ pending[t] = {}
        /\ View(t) # {}

----------------------------------------------------------------------------
C5_Discarded ==
    \A s \in Sessions :
        (dry_run[s] /\ pc[s] # "idle" /\ ~open[s]) => mem[s] = EmptyStore

C5_Private ==
    /\ \A t \in Sessions :
          /\ (pc[t] = "idle" /\ pc'[t] = "yielded" /\ dry_run'[t]) =>
                View(t)' = {}
          /\ (dry_run[t] /\ InBlock(t) /\ pc'[t] = "yielded"
                  /\ View(t)' # View(t)) =>
                \E row \in RowInputs : Insert(t, row)
    /\ disk' # disk =>
          \E s \in Sessions :
              ~dry_run'[s] /\ (Commit(s) \/ Enter(s, FALSE, "ok"))

\* C5: an ephemeral session starts with an empty rankings table, what it sees
\* changes only by its own inserts, none of its steps changes the store at
\* DB_PATH, and its data is gone once its connection is closed.
C5_Isolation == []C5_Discarded /\ [][C5_Private]_vars

\* Two ephemeral sessions in their blocks at once, each holding a row the
\* other does not see.
C5_Witness ==
    \E s \in Sessions, t \in Sessions :
        /\ s # t /\ dry_run[s] /\ dry_run[t] /\ InBlock(s) /\ InBlock(t)
        /\ View(s) # {} /\ View(t) # {}
        /\ View(s) \cap View(t) = {}

----------------------------------------------------------------------------
C6_NoOp ==
    \A st \in {disk} \cup { mem[s] : s \in Sessions }, w \in BOOLEAN :
        LET once == _create_schema(st, w)
        IN /\ st.hasTable => once = [err |-> FALSE, store |-> st]
           /\ ~once.err => _create_schema(once.store, w) = once

C6_Reopen ==
    \A s \in Sessions, cond \in {"ok", "readonly"} :
        (Enter(s, FALSE, cond) /\ disk.hasTable) =>
            disk' = disk /\ pc'[s] = "yielded"

\* C6: _create_schema applied to a store that holds the rankings table raises
\* no error and returns the store as it was, applying it twice gives what
\* applying it once gives, and a session opened on an initialized store is
\* yielded with the store unchanged.
C6_Idempotent == []C6_NoOp /\ [][C6_Reopen]_vars

\* A session yielded on a read-only store that already held the table and
\* rows: schema creation ran on it without writing and without an error.
C6_Witness ==
    \E s \in Sessions :
        /\ InBlock(s) /\ Persistent(s) /\ ~writable[s]
        /\ disk.rows # {}

----------------------------------------------------------------------------
C7_Stored ==
    \A rows \in RowSets : \A r \in rows : Required \subseteq DOMAIN r

C7_Outcome ==
    \A s \in Sessions, row \in RowInputs :
        CanWrite(s) =>
            /\ ~(Required \subseteq DOMAIN row) =>
                  Execute(s, row) = "IntegrityError"
            /\ (/\ Required \subseteq DOMAIN row
                /\ "penalty" \notin DOMAIN row
                /\ ~\E r \in View(s) : SameTriple(r, row)) =>
                  Execute(s, row) = "ok"

C7_Enforced ==
    \A s \in Sessions :
        pending'[s] # pending[s] =>
            \A row \in RowInputs :
                Insert(s, row) =>
                    /\ Required \subseteq DOMAIN row
                    /\ row \in View(s)'
                    /\ "penalty" \notin DOMAIN row =>
                          \A r \in View(s)' :
                              SameTriple(r, row) => "penalty" \notin DOMAIN r

\* C7: an insert with contest, year, rank, univ or score NULL raises
\* IntegrityError and no insert step adds such a row; an insert giving the
\* five and no penalty (its triple not yet in the table) succeeds and the row
\* is stored with penalty NULL; every stored row has the five non-NULL.
C7_NonNull == [](C7_Stored /\ C7_Outcome) /\ [][C7_Enforced]_vars

\* A session whose transaction holds a row inserted without penalty and in
\* which an insert with a required column NULL is refused.
C7_Witness ==
    \E s \in Sessions :
        /\ CanWrite(s)
        /\ \E r \in pending[s] : "penalty" \notin DOMAIN r
        /\ \E row \in RowInputs :
              /\ ~(Required \subseteq DOMAIN row)
              /\ Execute(s, row) = "IntegrityError"

----------------------------------------------------------------------------
Failed == {"connect_failed", "schema_failed"}

C8_NoHandle ==
    \A s \in Sessions :
        /\ pc[s] \in Failed =>
              /\ "yield" \notin { events[s][i] : i \in DOMAIN events[s] }
              /\ pending[s] = {} /\ ~didCommit[s]
        /\ pc[s] \in {"yielded", "closed", "raised"} =>
              SubSeq(events[s], 1, 3) = <<"acquire", "schema", "yield">>
        /\ InBlock(s) => open[s] /\ StoreOf(target[s], s).hasTable

C8_Surfaces ==
    \A s \in Sessions :
        /\ Enter(s, FALSE, "unopenable") => pc'[s] = "connect_failed"
        /\ (Enter(s, FALSE, "readonly") /\ ~disk.hasTable) =>
              pc'[s] = "schema_failed"
        /\ pc[s] \in Failed => pc'[s] = pc[s]

\* C8: when opening the store or creating the schema fails, connect_db ends
\* in failure, stays there (no retry, no recovery) and never yields a handle:
\* no statement runs through it; a yielded handle is open and its store holds
\* the rankings table, acquire and schema having run before the yield.
C8_NoPartialFailure == []C8_NoHandle /\ [][C8_Surfaces]_vars

\* One invocation failed in schema creation and another in opening the file.
C8_Witness ==
    \E s \in Sessions, t \in Sessions :
        pc[s] = "schema_failed" /\ pc[t] = "connect_failed"

----------------------------------------------------------------------------
\* C9: when schema creation fails after the connection was opened, the
\* connection is closed before the error reaches the caller: no invocation
\* has failed in schema creation with its connection still open.
C9_ClosedAfterSchemaError ==
    \A s \in Sessions : pc[s] = "schema_failed" => ~open[s]

----------------------------------------------------------------------------
C10_Uncommitted ==
    \A s \in Sessions, t \in Sessions :
        (s # t /\ Persistent(s) /\ Persistent(t) /\ InBlock(t)) =>
            pending[s] \cap View(t) = {}

C10_OnlyCommit ==
    /\ \A s \in Sessions :
          (Persistent(s) /\ open[s] /\ ~open'[s]) => disk' = disk
    /\ disk'.rows # disk.rows => \E s \in Sessions : Commit(s)

\* C10: closing a persistent connection leaves the store at DB_PATH as it
\* was, so rows not committed are dropped and committed rows stay; the rows
\* of the store change only when a caller commits, and the uncommitted rows
\* of one persistent session are not visible in another.
C10_NeverCommits == []C10_Uncommitted /\ [][C10_OnlyCommit]_vars

\* A persistent session was closed with uncommitted rows and without a
\* commit, and a persistent session opened afterwards sees an empty table.
C10_Witness ==
    \E s \in Sessions, t \in Sessions :
        /\ Persistent(s) /\ pc[s] = "closed" /\ lostWork[s] /\ ~didCommit[s]
        /\ Persistent(t) /\ InBlock(t)
        /\ writable[t] /\ View(t) = {}

====
